---- MODULE Spec2Model ----
(***************************************************************************)
(* A model of ruby-marshal: the Loader of src/ruby-marshal/src/load.rs     *)
(* (header, tag dispatch, link tables, placeholder slots) as a state       *)
(* machine over a byte stream, the value arena it fills, and the dump      *)
(* traversal that writes the arena back.                                   *)
(*                                                                         *)
(* Bytes are naturals 0..255, byte strings are sequences of bytes, value   *)
(* handles are indices into the arena sequence, Fixnum values are i32.     *)
(***************************************************************************)
EXTENDS Integers, Sequences, FiniteSets, TLC

(***************************************************************************)
(* Program constants (lib.rs).                                             *)
(***************************************************************************)
MAJOR_VERSION == 4
MINOR_VERSION == 8

VALUE_KIND_NIL == 48
VALUE_KIND_TRUE == 84
VALUE_KIND_FALSE == 70
VALUE_KIND_FIXNUM == 105
VALUE_KIND_FLOAT == 102
VALUE_KIND_SYMBOL == 58
VALUE_KIND_SYMBOL_LINK == 59
VALUE_KIND_OBJECT_LINK == 64
VALUE_KIND_INSTANCE_VARIABLES == 73
VALUE_KIND_ARRAY == 91
VALUE_KIND_HASH == 123
VALUE_KIND_HASH_DEFAULT == 125
VALUE_KIND_OBJECT == 111
VALUE_KIND_STRING == 34
VALUE_KIND_USER_DEFINED == 117
VALUE_KIND_CLASS == 99

\* std::mem::size_of::<i32>() (load.rs:112, load.rs:129)
SizeOfI32 == 4

I32_MAX == 2147483647
I32_MIN == -2147483647 - 1

(***************************************************************************)
(* Byte and word arithmetic.                                               *)
(***************************************************************************)
Byte == 0..255

\* `b as i8`
AsI8(b) == IF b >= 128 THEN b - 256 ELSE b

\* `x as u8` of a small signed integer
AsU8(x) == x % 256

RECURSIVE BitOr(_, _, _)
\* a | b on the low `bits` bits
BitOr(a, b, bits) ==
    IF bits = 0 THEN 0
    ELSE (IF (a % 2) + (b % 2) > 0 THEN 1 ELSE 0)
         + 2 * BitOr(a \div 2, b \div 2, bits - 1)

RECURSIVE BitAnd(_, _, _)
\* a & b on the low `bits` bits
BitAnd(a, b, bits) ==
    IF bits = 0 THEN 0
    ELSE (IF (a % 2) + (b % 2) = 2 THEN 1 ELSE 0)
         + 2 * BitAnd(a \div 2, b \div 2, bits - 1)

\* An i32 is held as its four little-endian bytes while bits are set on it,
\* and read back as a two's-complement number.
WordToI32(w) == w[1] + 256 * w[2] + 65536 * w[3] + 16777216 * AsI8(w[4])

\* n |= i32::from(byte) << (i * 8)        (i counted from 0)
OrByteAt(w, i, byte) == [w EXCEPT ![i + 1] = BitOr(w[i + 1], byte, 8)]

\* n &= !(0xFF_i32 << (i * 8))
ClearByteAt(w, i) == [w EXCEPT ![i + 1] = BitAnd(w[i + 1], 0, 8)]

(***************************************************************************)
(* Results of the reader-level functions: Ok(value) with the number of     *)
(* bytes taken from the reader, or Err(error).                             *)
(***************************************************************************)
Ok(v, used) == [ok |-> TRUE, value |-> v, used |-> used]
Err(e) == [ok |-> FALSE, error |-> e]

ErrIo == [kind |-> "Io"]
ErrInvalidVersion(major, minor) ==
    [kind |-> "InvalidVersion", major |-> major, minor |-> minor]
ErrInvalidValueKind(k) == [kind |-> "InvalidValueKind", actual |-> k]
ErrInvalidValueHandle(h) == [kind |-> "InvalidValueHandle", handle |-> h]
ErrInvalidFixnumSize(size) == [kind |-> "InvalidFixnumSize", size |-> size]
ErrFixnumInvalidUSize == [kind |-> "FixnumInvalidUSize"]
ErrInvalidFloatUtf8 == [kind |-> "InvalidFloatUtf8"]
ErrInvalidFloat == [kind |-> "InvalidFloat"]
ErrMissingSymbolLink(i) == [kind |-> "MissingSymbolLink", index |-> i]
ErrMissingObjectLink(i) == [kind |-> "MissingObjectLink", index |-> i]
ErrUnexpectedValueKind(expected, actual) ==
    [kind |-> "UnexpectedValueKind", expected |-> expected, actual |-> actual]
ErrNotAnObject == [kind |-> "NotAnObject"]
ErrDuplicateInstanceVariable(name) ==
    [kind |-> "DuplicateInstanceVariable", name |-> name]

(***************************************************************************)
(* Loader::read_fixnum_value on the bytes `bs` the reader holds next.      *)
(***************************************************************************)
RECURSIVE ReadPositive(_, _, _, _)
\* for i in 0..byte { n |= i32::from(self.read_byte()?) << (i * 8) }
ReadPositive(bs, count, i, w) ==
    IF i = count THEN Ok(WordToI32(w), 1 + count)
    ELSE IF Len(bs) < 2 + i THEN Err(ErrIo)
    ELSE ReadPositive(bs, count, i + 1, OrByteAt(w, i, bs[2 + i]))

RECURSIVE ReadNegative(_, _, _, _)
\* for i in 0..byte { n &= !(0xFF << (i*8)); n |= read_byte()? << (i*8) }
ReadNegative(bs, count, i, w) ==
    IF i = count THEN Ok(WordToI32(w), 1 + count)
    ELSE IF Len(bs) < 2 + i THEN Err(ErrIo)
    ELSE ReadNegative(bs, count, i + 1,
                      OrByteAt(ClearByteAt(w, i), i, bs[2 + i]))

Mut_read_fixnum_value_off_by_one(bs) ==
    IF Len(bs) = 0 THEN Err(ErrIo)
    ELSE LET len == bs[1] IN
         IF len = 0 THEN Ok(0, 1)
         ELSE IF AsI8(len) > 0
              THEN IF len > 4 THEN Ok(len - 5, 1)
                   ELSE ReadPositive(bs, len, 0, <<0, 0, 0, 0>>)
              ELSE IF AsI8(len) < -4 THEN Ok(AsI8(len) + 4, 1)
                   ELSE ReadNegative(bs, AsU8(-AsI8(len)), 0,
                                     <<255, 255, 255, 255>>)

Mut_read_fixnum_value_no_sign_extension(bs) ==
    IF Len(bs) = 0 THEN Err(ErrIo)
    ELSE LET len == bs[1] IN
         IF len = 0 THEN Ok(0, 1)
         ELSE IF AsI8(len) > 0
              THEN IF len > 4 THEN Ok(len - 5, 1)
                   ELSE ReadPositive(bs, len, 0, <<0, 0, 0, 0>>)
              ELSE IF AsI8(len) < -4 THEN Ok(AsI8(len) + 5, 1)
                   ELSE ReadNegative(bs, AsU8(-AsI8(len)), 0,
                                     <<0, 0, 0, 0>>)

read_fixnum_value(bs) ==
    IF Len(bs) = 0 THEN Err(ErrIo)
    ELSE LET len == bs[1]
             positive == AsI8(len) > 0
         IN
         IF len = 0 THEN Ok(0, 1)
         ELSE IF positive
              THEN IF len > 4 THEN Ok(len - 5, 1)
                   ELSE IF len > SizeOfI32
                        THEN Err(ErrInvalidFixnumSize(len))
                        ELSE ReadPositive(bs, len, 0, <<0, 0, 0, 0>>)
              ELSE IF AsI8(len) < -4 THEN Ok(AsI8(len) + 5, 1)
                   ELSE LET byte == AsU8(-AsI8(len)) IN
                        IF byte > SizeOfI32
                        THEN Err(ErrInvalidFixnumSize(byte))
                        ELSE ReadNegative(bs, byte, 0, <<255, 255, 255, 255>>)

\* read_fixnum_value()? followed by usize::try_from(..)
read_usize(bs) ==
    LET r == read_fixnum_value(bs) IN
    IF ~r.ok THEN r
    ELSE IF r.value < 0 THEN Err(ErrFixnumInvalidUSize)
    ELSE r

\* Loader::read_byte_string: a fixnum length, then that number of bytes.
read_byte_string(bs) ==
    LET r == read_usize(bs) IN
    IF ~r.ok THEN r
    ELSE IF Len(bs) < r.used + r.value THEN Err(ErrIo)
    ELSE Ok(SubSeq(bs, r.used + 1, r.used + r.value), r.used + r.value)

(***************************************************************************)
(* Loader::read_float_value on the bytes that follow the tag.  An f64 is   *)
(* held as its category and, when finite, sign, decimal mantissa and the   *)
(* number of fractional digits with trailing zeros removed: "1.0" and "1"  *)
(* are the same f64.  Only plain decimal literals ([-]digits[.digits]) are *)
(* in the bounded input set; exponents are not drawn.                      *)
(***************************************************************************)
TextNan == <<110, 97, 110>>
TextInf == <<105, 110, 102>>
TextNegInf == <<45, 105, 110, 102>>

IsDigit(b) == b >= 48 /\ b <= 57

RECURSIVE DigitsValue(_, _)
DigitsValue(ds, acc) ==
    IF ds = <<>> THEN acc ELSE DigitsValue(Tail(ds), 10 * acc + (ds[1] - 48))

RECURSIVE NormalizeF64(_, _, _)
NormalizeF64(neg, mant, scale) ==
    IF scale > 0 /\ mant % 10 = 0 THEN NormalizeF64(neg, mant \div 10, scale - 1)
    ELSE [cat |-> "finite", neg |-> neg, mant |-> mant, scale |-> scale]

\* std::str::from_utf8 on the drawn texts: a byte >= 0x80 appears in them only
\* as a lone 0xFF, which no UTF-8 sequence contains.
Utf8Valid(bs) == \A i \in 1..Len(bs) : bs[i] < 128

\* str::parse::<f64> on a plain decimal literal
ParseF64(bs) ==
    LET neg == Len(bs) > 0 /\ bs[1] = 45
        body == IF neg \/ (Len(bs) > 0 /\ bs[1] = 43) THEN Tail(bs) ELSE bs
        dots == {i \in 1..Len(body) : body[i] = 46}
        dot == IF dots = {} THEN Len(body) + 1
               ELSE CHOOSE i \in dots : \A j \in dots : i <= j
        int == SubSeq(body, 1, dot - 1)
        frac == SubSeq(body, dot + 1, Len(body))
        wellFormed == /\ Cardinality(dots) <= 1
                      /\ Len(int) + Len(frac) > 0
                      /\ \A i \in 1..Len(int) : IsDigit(int[i])
                      /\ \A i \in 1..Len(frac) : IsDigit(frac[i])
    IN
    IF wellFormed
    THEN [ok |-> TRUE,
          value |-> NormalizeF64(neg, DigitsValue(int \o frac, 0), Len(frac))]
    ELSE Err(ErrInvalidFloat)

read_float_value(bs) ==
    LET r == read_byte_string(bs) IN
    IF ~r.ok THEN r
    ELSE IF r.value = TextNan THEN Ok([cat |-> "nan"], r.used)
    ELSE IF r.value = TextInf THEN Ok([cat |-> "inf"], r.used)
    ELSE IF r.value = TextNegInf THEN Ok([cat |-> "-inf"], r.used)
    ELSE IF ~Utf8Valid(r.value) THEN Err(ErrInvalidFloatUtf8)
    ELSE LET p == ParseF64(r.value) IN
         IF p.ok THEN Ok(p.value, r.used) ELSE p

(***************************************************************************)
(* The value model.  Option<T> is None or Some(x).                         *)
(***************************************************************************)
None == [some |-> FALSE]
Some(x) == [some |-> TRUE, value |-> x]

NilValue == [kind |-> "Nil"]
BoolValue(b) == [kind |-> "Bool", value |-> b]
FixnumValue(n) == [kind |-> "Fixnum", value |-> n]
FloatValue(f) == [kind |-> "Float", value |-> f]
SymbolValue(bs) == [kind |-> "Symbol", value |-> bs]
StringValue(bs) == [kind |-> "String", value |-> bs, instance_variables |-> None]
ArrayValue(items) == [kind |-> "Array", value |-> items]
HashValue(pairs, default_value) ==
    [kind |-> "Hash", value |-> pairs, default_value |-> default_value]
ObjectValue(name, instance_variables) ==
    [kind |-> "Object", name |-> name, instance_variables |-> instance_variables]
UserDefinedValue(name, bs) ==
    [kind |-> "UserDefined", name |-> name, value |-> bs,
     instance_variables |-> None]
ClassValue(bs) == [kind |-> "Class", value |-> bs]

\* StringValue / UserDefinedValue ::set_instance_variables
set_instance_variables(v, instance_variables) ==
    [v EXCEPT !.instance_variables = instance_variables]

\* ValueArena::get / get_mut: a handle addresses a slot or nothing
ValidHandle(a, h) == h \in 1..Len(a)

\* pairs (a1, b1), (a2, b2), ... of a flat sequence a1, b1, a2, b2, ...
Pairs(flat, n) == [i \in 1..n |-> <<flat[2 * i - 1], flat[2 * i]>>]

(***************************************************************************)
(* The bounded input set.  The reader is the environment: every read draws *)
(* the next bytes of the stream from the sets below, so the streams        *)
(* decoded are all streams built of these pieces, up to the tag budget of  *)
(* the source profile chosen in Init.                                      *)
(***************************************************************************)
MaxTags == 3
MaxIvarTags == 6

\* 'l' (Bignum), a tag of the format that read_value has no arm for
UnknownTags == {108}

KnownTags ==
    {VALUE_KIND_NIL, VALUE_KIND_TRUE, VALUE_KIND_FALSE, VALUE_KIND_FIXNUM,
     VALUE_KIND_FLOAT, VALUE_KIND_SYMBOL, VALUE_KIND_SYMBOL_LINK,
     VALUE_KIND_OBJECT_LINK, VALUE_KIND_INSTANCE_VARIABLES, VALUE_KIND_ARRAY,
     VALUE_KIND_HASH, VALUE_KIND_HASH_DEFAULT, VALUE_KIND_OBJECT,
     VALUE_KIND_STRING, VALUE_KIND_USER_DEFINED, VALUE_KIND_CLASS}

\* streams over every tag, and longer streams over the tags that build
\* instance-variable tables
Sources ==
    {[tags |-> KnownTags \cup UnknownTags, max |-> MaxTags],
     [tags |-> {VALUE_KIND_INSTANCE_VARIABLES, VALUE_KIND_STRING,
                VALUE_KIND_OBJECT, VALUE_KIND_SYMBOL, VALUE_KIND_SYMBOL_LINK,
                VALUE_KIND_NIL},
      max |-> MaxIvarTags]}

MajorInputs == {3, 4}
MinorInputs == {5, 8, 9}
\* 0, 1, -124, a two-byte 1, a four-byte form with the top bit set, a cut one
FixnumInputs ==
    {<<0>>, <<6>>, <<255, 132>>, <<1, 1>>, <<4, 255, 255, 255, 255>>, <<1>>}
\* 0, 1, 2, -1
CountInputs == {<<0>>, <<6>>, <<7>>, <<250>>}
IndexInputs == {<<0>>, <<6>>, <<7>>, <<250>>}
\* "a", "b"
SymbolInputs == {<<6, 97>>, <<6, 98>>}
\* "", "a", a cut one
StringInputs == {<<0>>, <<6, 97>>, <<7, 97>>}
\* "A"
ClassInputs == {<<6, 65>>}
\* "1.5", "1.0", "nan", "-inf", "x", a lone 0xFF
FloatInputs ==
    {<<8, 49, 46, 53>>, <<8, 49, 46, 48>>, <<8>> \o TextNan,
     <<9>> \o TextNegInf, <<6, 120>>, <<6, 255>>}

(***************************************************************************)
(* What a conformant writer emits, stated on the bytes alone: the shortest *)
(* fixnum form of an i32, the shortest decimal text of a float.            *)
(***************************************************************************)
CanonicalFixnum(bs) ==
    LET b == bs[1]
        c == IF b <= 4 THEN b ELSE 256 - b
        top == bs[Len(bs)]
    IN
    IF b = 0 \/ (b > 5 /\ b < 251) THEN Len(bs) = 1
    ELSE /\ b \in {1, 2, 3, 4, 252, 253, 254, 255}
         /\ Len(bs) = 1 + c
         /\ IF b <= 4
            THEN /\ top # 0
                 /\ c = 1 => top > 122
                 /\ c = 4 => top < 128
            ELSE /\ top # 255
                 /\ c = 1 => top < 133
                 /\ c = 4 => top >= 128

CanonicalFloatText(t) ==
    \/ t \in {TextNan, TextInf, TextNegInf}
    \/ LET body == IF Len(t) > 0 /\ t[1] = 45 THEN Tail(t) ELSE t
           dots == {i \in 1..Len(body) : body[i] = 46}
       IN
       /\ Len(body) > 0
       /\ \A i \in 1..Len(body) : IsDigit(body[i]) \/ body[i] = 46
       /\ Cardinality(dots) <= 1
       /\ body[1] # 46
       /\ (body[1] = 48) => (Len(body) = 1 \/ body[2] = 46)
       /\ dots # {} => IsDigit(body[Len(body)]) /\ body[Len(body)] # 48

(***************************************************************************)
(* State.                                                                  *)
(***************************************************************************)
VARIABLES
    input,          \* the bytes the reader has handed out so far
    arena,          \* ValueArena: the slots, handle h addresses arena[h]
    root,           \* ValueArena: the root handle
    symbol_links,   \* Loader::symbol_links
    object_links,   \* Loader::object_links
    stack,          \* the read_* calls in progress, innermost last
    pc,             \* "header", "value", "loaded", "dumped", "failed"
    result,         \* what load returned
    tagLog,         \* history: the tag bytes dispatched, in stream order
    reserved,       \* history: the handles reserved as Nil placeholders
    canonical,      \* history: every piece read so far is in writer form
    output,         \* the bytes dump wrote
    source,         \* the bound on the stream drawn
    fx              \* the primitive codec under test (FixnumSpec)

vars == <<input, arena, root, symbol_links, object_links, stack, pc, result,
          tagLog, reserved, canonical, output, source, fx>>

FxIdle == [mode |-> "idle"]

\* Loader::new: ValueArena::new() holds the Nil root that load replaces.
Init ==
    /\ input = <<>>
    /\ arena = <<NilValue>>
    /\ root = 1
    /\ symbol_links = <<>>
    /\ object_links = <<>>
    /\ stack = <<>>
    /\ pc = "header"
    /\ result = [kind |-> "Pending"]
    /\ tagLog = <<>>
    /\ reserved = {}
    /\ canonical = TRUE
    /\ output = <<>>
    /\ source \in Sources
    /\ fx = FxIdle

(***************************************************************************)
(* The call stack.  A frame is a read_array / read_hash / read_object /    *)
(* read_user_defined call or the instance-variables arm of read_value,     *)
(* waiting for a nested read_value or read_value_symbol_like to return.    *)
(*   handle  the reserved slot (0: none)                                   *)
(*   head    the class name (Object, UserDefined) or the wrapped value     *)
(*           (IVar), 0 until read                                          *)
(*   n       the length or pair count, -1 until read                       *)
(*   items   the handles read so far, pairs flattened                      *)
(*   at      the index in tagLog of the tag that opened the frame          *)
(***************************************************************************)
Frame(kind, handle, n, at) ==
    [kind |-> kind, handle |-> handle, head |-> 0, n |-> n, items |-> <<>>,
     at |-> at]

Top(stk) == stk[Len(stk)]
Pop(stk) == SubSeq(stk, 1, Len(stk) - 1)

\* the next thing the innermost call does
Expect(stk) ==
    IF stk = <<>> THEN "value"
    ELSE LET f == Top(stk) IN
         CASE f.kind = "Array" ->
                IF Len(f.items) < f.n THEN "value" ELSE "finish"
           [] f.kind = "Hash" ->
                IF Len(f.items) < 2 * f.n THEN "value" ELSE "finish"
           [] f.kind = "HashDefault" ->
                IF Len(f.items) < 2 * f.n + 1 THEN "value" ELSE "finish"
           [] f.kind = "UserDefined" ->
                IF f.head = 0 THEN "symbol" ELSE "payload"
           [] f.kind \in {"Object", "IVar"} ->
                IF f.head = 0
                THEN (IF f.kind = "Object" THEN "symbol" ELSE "value")
                ELSE IF f.n = -1 THEN "count"
                ELSE IF Len(f.items) < 2 * f.n
                     THEN (IF Len(f.items) % 2 = 0 THEN "symbol" ELSE "value")
                     ELSE "finish"

\* a nested call returned handle h to the innermost frame
DeliverTo(stk, h) ==
    LET f == Top(stk) IN
    IF f.kind \in {"Object", "IVar", "UserDefined"} /\ f.head = 0
    THEN [stk EXCEPT ![Len(stk)].head = h]
    ELSE [stk EXCEPT ![Len(stk)].items = Append(@, h)]

(***************************************************************************)
(* Steps of load.                                                          *)
(***************************************************************************)
\* A tagLog entry: the tag byte, the handle its call returned (0 while the
\* call is still reading), the link index read (-1: none) and the reserved
\* slot of the innermost container being read at that moment (0: none).
Entry(tag, handle, index, parent) ==
    [tag |-> tag, handle |-> handle, index |-> index, parent |-> parent]

\* A step that took `consumed` from the reader and left the loader with
\* arena a, link tables sl and ol, and call stack stk; h # 0 is the handle
\* the step's read_value / read_value_symbol_like call returns.  When the
\* call that returns is the one load made, load installs the root and
\* returns the arena (load.rs:391-396).
Advance(consumed, log, a, sl, ol, stk, h, canon) ==
    /\ input' = input \o consumed
    /\ tagLog' = log
    /\ arena' = a
    /\ symbol_links' = sl
    /\ object_links' = ol
    /\ canonical' = (canonical /\ canon)
    /\ IF h # 0 /\ stk = <<>>
       THEN /\ pc' = "loaded"
            /\ root' = h
            /\ stack' = <<>>
            /\ result' = [kind |-> "Ok"]
       ELSE /\ pc' = pc
            /\ root' = root
            /\ stack' = IF h = 0 THEN stk ELSE DeliverTo(stk, h)
            /\ result' = result
    /\ UNCHANGED <<output, source, fx>>

\* A step that returned Err(e): `?` carries it out of load, the loader and
\* its arena are dropped.
Fail(consumed, e) ==
    /\ input' = input \o consumed
    /\ pc' = "failed"
    /\ result' = [kind |-> "Err", error |-> e]
    /\ UNCHANGED <<arena, root, symbol_links, object_links, stack, tagLog,
                   reserved, canonical, output, source, fx>>

\* read_value (or read_value_symbol_like, for the kinds in `expects`) is
\* about to read tag byte `tag`
Dispatch(tag, expects) ==
    /\ pc = "value"
    /\ Expect(stack) \in expects
    /\ Len(tagLog) < source.max
    /\ tag \in source.tags

Logged(tag, handle, index) ==
    Append(tagLog, Entry(tag, handle, index,
                         IF stack = <<>> THEN 0 ELSE Top(stack).handle))
NextHandle == Len(arena) + 1

Mut_VersionRejected(major_version, minor_version) ==
    major_version # MAJOR_VERSION /\ minor_version > MINOR_VERSION

\* the condition of read_header's early return (load.rs:88)
VersionRejected(major_version, minor_version) ==
    major_version # MAJOR_VERSION \/ minor_version > MINOR_VERSION

\* Loader::read_header, called first by load
ReadHeader ==
    /\ pc = "header"
    /\ \E major \in MajorInputs, minor \in MinorInputs :
         IF VersionRejected(major, minor)
         THEN Fail(<<major, minor>>, ErrInvalidVersion(major, minor))
         ELSE /\ input' = <<major, minor>>
              /\ pc' = "value"
              /\ canonical' = (major = MAJOR_VERSION /\ minor = MINOR_VERSION)
              /\ UNCHANGED <<arena, root, symbol_links, object_links, stack,
                             result, tagLog, reserved, output, source, fx>>

\* read_byte at the end of the stream: read_exact fails, Error::Io
ReadEof ==
    /\ \/ pc = "header"
       \/ pc = "value" /\ Expect(stack) # "finish"
    /\ \E cut \in (IF pc = "header" THEN {<<>>, <<MAJOR_VERSION>>} ELSE {<<>>}) :
         Fail(cut, ErrIo)

ReadNil ==
    /\ Dispatch(VALUE_KIND_NIL, {"value"})
    /\ Advance(<<VALUE_KIND_NIL>>, Logged(VALUE_KIND_NIL, NextHandle, -1),
               Append(arena, NilValue), symbol_links, object_links, stack,
               NextHandle, TRUE)
    /\ UNCHANGED reserved

ReadTrue ==
    /\ Dispatch(VALUE_KIND_TRUE, {"value"})
    /\ Advance(<<VALUE_KIND_TRUE>>, Logged(VALUE_KIND_TRUE, NextHandle, -1),
               Append(arena, BoolValue(TRUE)), symbol_links, object_links,
               stack, NextHandle, TRUE)
    /\ UNCHANGED reserved

ReadFalse ==
    /\ Dispatch(VALUE_KIND_FALSE, {"value"})
    /\ Advance(<<VALUE_KIND_FALSE>>, Logged(VALUE_KIND_FALSE, NextHandle, -1),
               Append(arena, BoolValue(FALSE)), symbol_links, object_links,
               stack, NextHandle, TRUE)
    /\ UNCHANGED reserved

\* Loader::read_fixnum
ReadFixnum ==
    /\ Dispatch(VALUE_KIND_FIXNUM, {"value"})
    /\ \E bs \in FixnumInputs :
         LET r == read_fixnum_value(bs) IN
         IF r.ok
         THEN /\ Advance(<<VALUE_KIND_FIXNUM>> \o bs,
                         Logged(VALUE_KIND_FIXNUM, NextHandle, -1),
                         Append(arena, FixnumValue(r.value)), symbol_links,
                         object_links, stack, NextHandle, CanonicalFixnum(bs))
              /\ UNCHANGED reserved
         ELSE Fail(<<VALUE_KIND_FIXNUM>> \o bs, r.error)

\* Loader::read_float
ReadFloat ==
    /\ Dispatch(VALUE_KIND_FLOAT, {"value"})
    /\ \E bs \in FloatInputs :
         LET r == read_float_value(bs) IN
         IF r.ok
         THEN /\ Advance(<<VALUE_KIND_FLOAT>> \o bs,
                         Logged(VALUE_KIND_FLOAT, NextHandle, -1),
                         Append(arena, FloatValue(r.value)), symbol_links,
                         Append(object_links, NextHandle), stack, NextHandle,
                         CanonicalFixnum(<<bs[1]>>)
                           /\ CanonicalFloatText(Tail(bs)))
              /\ UNCHANGED reserved
         ELSE Fail(<<VALUE_KIND_FLOAT>> \o bs, r.error)

\* Loader::read_symbol, from read_value and from read_value_symbol_like
ReadSymbol ==
    /\ Dispatch(VALUE_KIND_SYMBOL, {"value", "symbol"})
    /\ \E bs \in SymbolInputs :
         LET r == read_byte_string(bs) IN
         IF r.ok
         THEN /\ Advance(<<VALUE_KIND_SYMBOL>> \o bs,
                         Logged(VALUE_KIND_SYMBOL, NextHandle, -1),
                         Append(arena, SymbolValue(r.value)),
                         Append(symbol_links, NextHandle), object_links,
                         stack, NextHandle, CanonicalFixnum(<<bs[1]>>))
              /\ UNCHANGED reserved
         ELSE Fail(<<VALUE_KIND_SYMBOL>> \o bs, r.error)

Mut_LinkGet_off_by_one(links, index) ==
    IF index + 1 < Len(links) THEN Some(links[index + 2]) ELSE None

Mut_LinkGet_clamped(links, index) ==
    IF index < Len(links) THEN Some(links[index + 1])
    ELSE IF links # <<>> THEN Some(links[Len(links)])
    ELSE None

Mut_LinkGet_from_end(links, index) ==
    IF index < Len(links) THEN Some(links[Len(links) - index]) ELSE None

\* Vec::get(index) on a link table
LinkGet(links, index) ==
    IF index < Len(links) THEN Some(links[index + 1]) ELSE None

\* Loader::read_symbol_link, from read_value and from read_value_symbol_like
ReadSymbolLink ==
    /\ Dispatch(VALUE_KIND_SYMBOL_LINK, {"value", "symbol"})
    /\ \E bs \in IndexInputs :
         LET r == read_usize(bs)
             tag == <<VALUE_KIND_SYMBOL_LINK>>
         IN
         IF ~r.ok THEN Fail(tag \o bs, r.error)
         ELSE LET got == LinkGet(symbol_links, r.value) IN
              IF ~got.some THEN Fail(tag \o bs, ErrMissingSymbolLink(r.value))
              ELSE /\ Advance(tag \o bs,
                              Logged(VALUE_KIND_SYMBOL_LINK, got.value, r.value),
                              arena, symbol_links, object_links, stack,
                              got.value, CanonicalFixnum(bs))
                   /\ UNCHANGED reserved

\* Loader::read_object_link
ReadObjectLink ==
    /\ Dispatch(VALUE_KIND_OBJECT_LINK, {"value"})
    /\ \E bs \in IndexInputs :
         LET r == read_usize(bs)
             tag == <<VALUE_KIND_OBJECT_LINK>>
         IN
         IF ~r.ok THEN Fail(tag \o bs, r.error)
         ELSE LET got == LinkGet(object_links, r.value) IN
              IF ~got.some THEN Fail(tag \o bs, ErrMissingObjectLink(r.value))
              ELSE /\ Advance(tag \o bs,
                              Logged(VALUE_KIND_OBJECT_LINK, got.value, r.value),
                              arena, symbol_links, object_links, stack,
                              got.value, CanonicalFixnum(bs))
                   /\ UNCHANGED reserved

Mut_ReadString_no_link ==
    /\ Dispatch(VALUE_KIND_STRING, {"value"})
    /\ \E bs \in StringInputs :
         LET r == read_byte_string(bs) IN
         IF r.ok
         THEN /\ Advance(<<VALUE_KIND_STRING>> \o bs,
                         Logged(VALUE_KIND_STRING, NextHandle, -1),
                         Append(arena, StringValue(r.value)), symbol_links,
                         object_links, stack, NextHandle,
                         CanonicalFixnum(<<bs[1]>>))
              /\ UNCHANGED reserved
         ELSE Fail(<<VALUE_KIND_STRING>> \o bs, r.error)

\* Loader::read_string
ReadString ==
    /\ Dispatch(VALUE_KIND_STRING, {"value"})
    /\ \E bs \in StringInputs :
         LET r == read_byte_string(bs) IN
         IF r.ok
         THEN /\ Advance(<<VALUE_KIND_STRING>> \o bs,
                         Logged(VALUE_KIND_STRING, NextHandle, -1),
                         Append(arena, StringValue(r.value)), symbol_links,
                         Append(object_links, NextHandle), stack, NextHandle,
                         CanonicalFixnum(<<bs[1]>>))
              /\ UNCHANGED reserved
         ELSE Fail(<<VALUE_KIND_STRING>> \o bs, r.error)

\* Loader::read_class
ReadClass ==
    /\ Dispatch(VALUE_KIND_CLASS, {"value"})
    /\ \E bs \in ClassInputs :
         LET r == read_byte_string(bs) IN
         IF r.ok
         THEN /\ Advance(<<VALUE_KIND_CLASS>> \o bs,
                         Logged(VALUE_KIND_CLASS, NextHandle, -1),
                         Append(arena, ClassValue(r.value)), symbol_links,
                         Append(object_links, NextHandle), stack, NextHandle,
                         CanonicalFixnum(<<bs[1]>>))
              /\ UNCHANGED reserved
         ELSE Fail(<<VALUE_KIND_CLASS>> \o bs, r.error)

\* read_value: `_ => Err(Error::InvalidValueKind { kind })`
ReadInvalidKind ==
    \E kind \in source.tags \ KnownTags :
        /\ Dispatch(kind, {"value"})
        /\ Fail(<<kind>>, ErrInvalidValueKind(kind))

\* read_value_symbol_like: `_ => Err(Error::UnexpectedValueKind { .. })`
ReadUnexpectedKind ==
    \E kind \in source.tags \ {VALUE_KIND_SYMBOL, VALUE_KIND_SYMBOL_LINK} :
        /\ Dispatch(kind, {"symbol"})
        /\ Fail(<<kind>>, ErrUnexpectedValueKind(VALUE_KIND_SYMBOL, kind))

Mut_ReadArray_no_link ==
    /\ Dispatch(VALUE_KIND_ARRAY, {"value"})
    /\ \E bs \in CountInputs :
         LET r == read_usize(bs)
             handle == NextHandle
         IN
         IF r.ok
         THEN /\ Advance(<<VALUE_KIND_ARRAY>> \o bs,
                         Logged(VALUE_KIND_ARRAY, handle, -1),
                         Append(arena, NilValue), symbol_links, object_links,
                         Append(stack, Frame("Array", handle, r.value,
                                             Len(tagLog) + 1)),
                         0, CanonicalFixnum(bs))
              /\ reserved' = reserved \cup {handle}
         ELSE Fail(<<VALUE_KIND_ARRAY>> \o bs, r.error)

\* Loader::read_array up to its first read_value: the slot is reserved and
\* linked, then the length is read
ReadArray ==
    /\ Dispatch(VALUE_KIND_ARRAY, {"value"})
    /\ \E bs \in CountInputs :
         LET r == read_usize(bs)
             handle == NextHandle
         IN
         IF r.ok
         THEN /\ Advance(<<VALUE_KIND_ARRAY>> \o bs,
                         Logged(VALUE_KIND_ARRAY, handle, -1),
                         Append(arena, NilValue), symbol_links,
                         Append(object_links, handle),
                         Append(stack, Frame("Array", handle, r.value,
                                             Len(tagLog) + 1)),
                         0, CanonicalFixnum(bs))
              /\ reserved' = reserved \cup {handle}
         ELSE Fail(<<VALUE_KIND_ARRAY>> \o bs, r.error)

Mut_FinishArray_new_slot ==
    /\ pc = "value"
    /\ stack # <<>>
    /\ Top(stack).kind = "Array"
    /\ Expect(stack) = "finish"
    /\ LET f == Top(stack) IN
       Advance(<<>>, tagLog, Append(arena, ArrayValue(f.items)),
               symbol_links, object_links, Pop(stack), NextHandle, TRUE)
    /\ UNCHANGED reserved

\* Loader::read_array after its last read_value
FinishArray ==
    /\ pc = "value"
    /\ stack # <<>>
    /\ Top(stack).kind = "Array"
    /\ Expect(stack) = "finish"
    /\ LET f == Top(stack) IN
       Advance(<<>>, tagLog, [arena EXCEPT ![f.handle] = ArrayValue(f.items)],
               symbol_links, object_links, Pop(stack), f.handle, TRUE)
    /\ UNCHANGED reserved

\* Loader::read_hash up to its first read_value
ReadHash ==
    \E has_default_value \in BOOLEAN :
      LET tag == IF has_default_value THEN VALUE_KIND_HASH_DEFAULT
                 ELSE VALUE_KIND_HASH
      IN
      /\ Dispatch(tag, {"value"})
      /\ \E bs \in CountInputs :
           LET r == read_usize(bs)
               handle == NextHandle
               kind == IF has_default_value THEN "HashDefault" ELSE "Hash"
           IN
           IF r.ok
           THEN /\ Advance(<<tag>> \o bs, Logged(tag, handle, -1),
                           Append(arena, NilValue), symbol_links,
                           Append(object_links, handle),
                           Append(stack, Frame(kind, handle, r.value,
                                               Len(tagLog) + 1)),
                           0, CanonicalFixnum(bs))
                /\ reserved' = reserved \cup {handle}
           ELSE Fail(<<tag>> \o bs, r.error)

\* Loader::read_hash after its last read_value
FinishHash ==
    /\ pc = "value"
    /\ stack # <<>>
    /\ Top(stack).kind \in {"Hash", "HashDefault"}
    /\ Expect(stack) = "finish"
    /\ LET f == Top(stack)
           default_value == IF f.kind = "HashDefault"
                            THEN Some(f.items[2 * f.n + 1]) ELSE None
       IN
       Advance(<<>>, tagLog,
               [arena EXCEPT ![f.handle] =
                   HashValue(Pairs(f.items, f.n), default_value)],
               symbol_links, object_links, Pop(stack), f.handle, TRUE)
    /\ UNCHANGED reserved

\* Loader::read_object up to read_value_symbol_like
ReadObject ==
    /\ Dispatch(VALUE_KIND_OBJECT, {"value"})
    /\ LET handle == NextHandle IN
       /\ Advance(<<VALUE_KIND_OBJECT>>, Logged(VALUE_KIND_OBJECT, handle, -1),
                  Append(arena, NilValue), symbol_links,
                  Append(object_links, handle),
                  Append(stack, Frame("Object", handle, -1, Len(tagLog) + 1)),
                  0, TRUE)
       /\ reserved' = reserved \cup {handle}

\* Loader::read_instance_variables up to its loop: the pair count
ReadInstanceVariables ==
    /\ pc = "value"
    /\ Expect(stack) = "count"
    /\ \E bs \in CountInputs :
         LET r == read_usize(bs) IN
         IF r.ok
         THEN /\ Advance(bs, tagLog, arena, symbol_links, object_links,
                         [stack EXCEPT ![Len(stack)].n = r.value], 0,
                         CanonicalFixnum(bs))
              /\ UNCHANGED reserved
         ELSE Fail(bs, r.error)

\* Loader::read_object after read_instance_variables returned
FinishObject ==
    /\ pc = "value"
    /\ stack # <<>>
    /\ Top(stack).kind = "Object"
    /\ Expect(stack) = "finish"
    /\ LET f == Top(stack) IN
       Advance(<<>>, tagLog,
               [arena EXCEPT ![f.handle] =
                   ObjectValue(f.head, Pairs(f.items, f.n))],
               symbol_links, object_links, Pop(stack), f.handle, TRUE)
    /\ UNCHANGED reserved

\* read_value, VALUE_KIND_INSTANCE_VARIABLES arm, up to its read_value
ReadInstanceVariablesWrapper ==
    /\ Dispatch(VALUE_KIND_INSTANCE_VARIABLES, {"value"})
    /\ Advance(<<VALUE_KIND_INSTANCE_VARIABLES>>,
               Logged(VALUE_KIND_INSTANCE_VARIABLES, 0, -1),
               arena, symbol_links, object_links,
               Append(stack, Frame("IVar", 0, -1, Len(tagLog) + 1)), 0, TRUE)
    /\ UNCHANGED reserved

Mut_CanCarryInstanceVariables(v) == v.kind \in {"String", "UserDefined", "Object"}

\* the arms of the match on the wrapped value (load.rs:366-372)
CanCarryInstanceVariables(v) == v.kind \in {"String", "UserDefined"}

\* a conformant writer puts the wrapper right before the '"' or 'u' it wraps
WrapsDefinition(f) ==
    /\ Len(tagLog) > f.at
    /\ tagLog[f.at + 1].tag \in {VALUE_KIND_STRING, VALUE_KIND_USER_DEFINED}

\* read_value, VALUE_KIND_INSTANCE_VARIABLES arm, after
\* read_instance_variables returned
FinishInstanceVariables ==
    /\ pc = "value"
    /\ stack # <<>>
    /\ Top(stack).kind = "IVar"
    /\ Expect(stack) = "finish"
    /\ LET f == Top(stack)
           value == f.head
           instance_variables == Pairs(f.items, f.n)
       IN
       IF ~ValidHandle(arena, value)
       THEN Fail(<<>>, ErrInvalidValueHandle(value))
       ELSE IF CanCarryInstanceVariables(arena[value])
       THEN /\ Advance(<<>>, [tagLog EXCEPT ![f.at].handle = value],
                       [arena EXCEPT ![value] =
                           set_instance_variables(@, Some(instance_variables))],
                       symbol_links, object_links, Pop(stack), value,
                       WrapsDefinition(f))
            /\ UNCHANGED reserved
       ELSE Fail(<<>>, ErrNotAnObject)

\* Loader::read_user_defined up to read_value_symbol_like
ReadUserDefined ==
    /\ Dispatch(VALUE_KIND_USER_DEFINED, {"value"})
    /\ Advance(<<VALUE_KIND_USER_DEFINED>>,
               Logged(VALUE_KIND_USER_DEFINED, 0, -1),
               arena, symbol_links, object_links,
               Append(stack, Frame("UserDefined", 0, -1, Len(tagLog) + 1)),
               0, TRUE)
    /\ UNCHANGED reserved

\* Loader::read_user_defined after read_value_symbol_like returned
ReadUserDefinedPayload ==
    /\ pc = "value"
    /\ Expect(stack) = "payload"
    /\ \E bs \in StringInputs :
         LET r == read_byte_string(bs)
             f == Top(stack)
             handle == NextHandle
         IN
         IF r.ok
         THEN /\ Advance(bs, [tagLog EXCEPT ![f.at].handle = handle],
                         Append(arena, UserDefinedValue(f.head, r.value)),
                         symbol_links, Append(object_links, handle),
                         Pop(stack), handle, CanonicalFixnum(<<bs[1]>>))
              /\ UNCHANGED reserved
         ELSE Fail(bs, r.error)

(***************************************************************************)
(* dump: the encoder of the arena.  Fixnum and float writers are the       *)
(* inverse rules of the primitive codecs; the traversal keeps a symbol     *)
(* table and an object table from handle to assigned index, filled in the  *)
(* order bytes are written.                                                *)
(***************************************************************************)
Pow256(c) == CASE c = 0 -> 1 [] c = 1 -> 256 [] c = 2 -> 65536 [] c = 3 -> 16777216

\* the c low bytes of v, little-endian, two's complement
LeBytes(v, c) == [i \in 1..c |-> (v \div Pow256(i - 1)) % 256]

\* the least c in 1..4 whose c-byte little-endian form holds v
MinimalByteCount(v) ==
    IF v >= 0
    THEN (IF v < 256 THEN 1 ELSE IF v < 65536 THEN 2
          ELSE IF v < 16777216 THEN 3 ELSE 4)
    ELSE (IF v >= -256 THEN 1 ELSE IF v >= -65536 THEN 2
          ELSE IF v >= -16777216 THEN 3 ELSE 4)

\* The fixnum encode rule, the inverse of read_fixnum_value: it picks the
\* form the decoder reads back.  The one-byte negative form is value - 5 for
\* the values read_fixnum_value returns from one byte (load.rs:124-125:
\* bytes 0x80..0xFA, -123..-1); -124 takes the marker form 0xFF 0x84.
write_fixnum_value(v) ==
    IF v = 0 THEN <<0>>
    ELSE IF v >= 1 /\ v <= 122 THEN <<v + 5>>
    ELSE IF v >= -123 /\ v <= -1 THEN <<AsU8(v - 5)>>
    ELSE LET c == MinimalByteCount(v) IN
         <<IF v > 0 THEN c ELSE AsU8(-c)>> \o LeBytes(v, c)

write_byte_string(bs) == write_fixnum_value(Len(bs)) \o bs

RECURSIVE DigitsOf(_)
DigitsOf(n) ==
    IF n < 10 THEN <<48 + n>> ELSE Append(DigitsOf(n \div 10), 48 + (n % 10))

RECURSIVE Pow10(_)
Pow10(k) == IF k = 0 THEN 1 ELSE 10 * Pow10(k - 1)

RECURSIVE PadLeft(_, _)
PadLeft(ds, width) == IF Len(ds) >= width THEN ds ELSE PadLeft(<<48>> \o ds, width)

\* the float encode rule: the special texts, or the shortest decimal text
FormatF64(f) ==
    CASE f.cat = "nan" -> TextNan
      [] f.cat = "inf" -> TextInf
      [] f.cat = "-inf" -> TextNegInf
      [] f.cat = "finite" ->
           (IF f.neg THEN <<45>> ELSE <<>>)
           \o DigitsOf(f.mant \div Pow10(f.scale))
           \o (IF f.scale = 0 THEN <<>>
               ELSE <<46>> \o PadLeft(DigitsOf(f.mant % Pow10(f.scale)), f.scale))

\* the index a handle was assigned in a table, -1 if none
IndexOf(table, h) ==
    LET at == {i \in 1..Len(table) : table[i] = h} IN
    IF at = {} THEN -1 ELSE (CHOOSE i \in at : TRUE) - 1

Emit(st, bs) == [st EXCEPT !.out = @ \o bs]

FlatPairs(pairs) == [i \in 1..(2 * Len(pairs)) |-> pairs[(i + 1) \div 2][2 - (i % 2)]]

RECURSIVE write_value(_, _, _)
RECURSIVE write_values(_, _, _)

\* the handles hs, one after the other
write_values(a, hs, st) ==
    IF hs = <<>> THEN st
    ELSE write_values(a, Tail(hs), write_value(a, hs[1], st))

\* a pair count, then the (symbol, value) pairs
write_instance_variables(a, pairs, st) ==
    write_values(a, FlatPairs(pairs), Emit(st, write_fixnum_value(Len(pairs))))

\* the value at handle h: a link if the handle has its index already,
\* otherwise the next index of its table, then tag and content
write_value(a, h, st) ==
    LET v == a[h] IN
    CASE v.kind = "Nil" -> Emit(st, <<VALUE_KIND_NIL>>)
      [] v.kind = "Bool" ->
           Emit(st, <<IF v.value THEN VALUE_KIND_TRUE ELSE VALUE_KIND_FALSE>>)
      [] v.kind = "Fixnum" ->
           Emit(st, <<VALUE_KIND_FIXNUM>> \o write_fixnum_value(v.value))
      [] v.kind = "Symbol" ->
           IF IndexOf(st.syms, h) >= 0
           THEN Emit(st, <<VALUE_KIND_SYMBOL_LINK>>
                         \o write_fixnum_value(IndexOf(st.syms, h)))
           ELSE Emit([st EXCEPT !.syms = Append(@, h)],
                     <<VALUE_KIND_SYMBOL>> \o write_byte_string(v.value))
      [] OTHER ->
           IF IndexOf(st.objs, h) >= 0
           THEN Emit(st, <<VALUE_KIND_OBJECT_LINK>>
                         \o write_fixnum_value(IndexOf(st.objs, h)))
           ELSE LET s1 == [st EXCEPT !.objs = Append(@, h)] IN
                CASE v.kind = "Float" ->
                       Emit(s1, <<VALUE_KIND_FLOAT>>
                                \o write_byte_string(FormatF64(v.value)))
                  [] v.kind = "Class" ->
                       Emit(s1, <<VALUE_KIND_CLASS>> \o write_byte_string(v.value))
                  [] v.kind = "String" ->
                       IF v.instance_variables.some
                       THEN write_instance_variables(a, v.instance_variables.value,
                              Emit(s1, <<VALUE_KIND_INSTANCE_VARIABLES,
                                         VALUE_KIND_STRING>>
                                       \o write_byte_string(v.value)))
                       ELSE Emit(s1, <<VALUE_KIND_STRING>>
                                     \o write_byte_string(v.value))
                  [] v.kind = "UserDefined" ->
                       LET wrapped == v.instance_variables.some
                           s2 == Emit(write_value(a, v.name,
                                        Emit(s1, (IF wrapped
                                                  THEN <<VALUE_KIND_INSTANCE_VARIABLES>>
                                                  ELSE <<>>)
                                                 \o <<VALUE_KIND_USER_DEFINED>>)),
                                      write_byte_string(v.value))
                       IN
                       IF wrapped
                       THEN write_instance_variables(a, v.instance_variables.value, s2)
                       ELSE s2
                  [] v.kind = "Array" ->
                       write_values(a, v.value,
                         Emit(s1, <<VALUE_KIND_ARRAY>>
                                  \o write_fixnum_value(Len(v.value))))
                  [] v.kind = "Hash" ->
                       LET s2 == write_values(a, FlatPairs(v.value),
                                   Emit(s1, <<IF v.default_value.some
                                              THEN VALUE_KIND_HASH_DEFAULT
                                              ELSE VALUE_KIND_HASH>>
                                            \o write_fixnum_value(Len(v.value))))
                       IN
                       IF v.default_value.some
                       THEN write_value(a, v.default_value.value, s2)
                       ELSE s2
                  [] v.kind = "Object" ->
                       write_instance_variables(a, v.instance_variables,
                         write_value(a, v.name, Emit(s1, <<VALUE_KIND_OBJECT>>)))

\* dump: the header, then the root value
dump(a, r) ==
    write_value(a, r, [out |-> <<MAJOR_VERSION, MINOR_VERSION>>,
                       syms |-> <<>>, objs |-> <<>>]).out

\* dump(&mut new_data, &value_arena) on the arena load returned
Dump ==
    /\ pc = "loaded"
    /\ output' = dump(arena, root)
    /\ pc' = "dumped"
    /\ UNCHANGED <<input, arena, root, symbol_links, object_links, stack,
                   result, tagLog, reserved, canonical, source, fx>>

Next ==
    \/ ReadHeader
    \/ ReadEof
    \/ ReadNil
    \/ ReadTrue
    \/ ReadFalse
    \/ ReadFixnum
    \/ ReadFloat
    \/ ReadSymbol
    \/ ReadSymbolLink
    \/ ReadObjectLink
    \/ ReadString
    \/ ReadClass
    \/ ReadInvalidKind
    \/ ReadUnexpectedKind
    \/ ReadArray
    \/ FinishArray
    \/ ReadHash
    \/ FinishHash
    \/ ReadObject
    \/ ReadInstanceVariables
    \/ FinishObject
    \/ ReadInstanceVariablesWrapper
    \/ FinishInstanceVariables
    \/ ReadUserDefined
    \/ ReadUserDefinedPayload
    \/ Dump

Spec == Init /\ [][Next]_vars

(***************************************************************************)
(* The fixnum codec on its own: FixnumSpec draws a marker byte with its    *)
(* payload, or an integer, and applies read_fixnum_value to the bytes, or  *)
(* write_fixnum_value and then read_fixnum_value to the integer.           *)
(***************************************************************************)
PayloadInputs == {0, 1, 123, 127, 128, 132, 255}
CountedMarkers == {1, 2, 3, 4, 252, 253, 254, 255}
PayloadCount(b) == IF b <= 4 THEN b ELSE 256 - b

\* every marker byte; the counted ones with a whole payload, and cut short
FixnumByteInputs ==
    {<<b>> : b \in Byte}
    \cup UNION {{<<b>> \o p : p \in [1..k -> PayloadInputs]} :
                   <<b, k>> \in {<<m, j>> \in CountedMarkers \X (1..4) :
                                    j <= PayloadCount(m)}}

FixnumValueInputs == {0, 1, 122, 123, -1, -123, -124, I32_MAX, I32_MIN}

FixnumInit ==
    /\ input = <<>>
    /\ arena = <<NilValue>>
    /\ root = 1
    /\ symbol_links = <<>>
    /\ object_links = <<>>
    /\ stack = <<>>
    /\ pc = "header"
    /\ result = [kind |-> "Pending"]
    /\ tagLog = <<>>
    /\ reserved = {}
    /\ canonical = TRUE
    /\ output = <<>>
    /\ source = [tags |-> {}, max |-> 0]
    /\ \/ \E bs \in FixnumByteInputs : fx = [mode |-> "bytes", bytes |-> bs]
       \/ \E v \in FixnumValueInputs : fx = [mode |-> "value", value |-> v]

LoaderUnchanged ==
    UNCHANGED <<input, arena, root, symbol_links, object_links, stack, pc,
                result, tagLog, reserved, canonical, output, source>>

\* read_fixnum_value on a drawn byte sequence
FixnumDecode ==
    /\ fx.mode = "bytes"
    /\ fx' = [mode |-> "decoded", bytes |-> fx.bytes,
              result |-> read_fixnum_value(fx.bytes)]
    /\ LoaderUnchanged

\* write_fixnum_value, then read_fixnum_value on what it wrote
FixnumRoundTrip ==
    /\ fx.mode = "value"
    /\ LET bs == write_fixnum_value(fx.value) IN
       fx' = [mode |-> "roundtrip", value |-> fx.value, bytes |-> bs,
              result |-> read_fixnum_value(bs)]
    /\ LoaderUnchanged

FixnumNext ==
    \/ FixnumDecode
    \/ FixnumRoundTrip

FixnumSpec == FixnumInit /\ [][FixnumNext]_vars

(***************************************************************************)
(* Properties.                                                             *)
(***************************************************************************)
Loaded == pc \in {"loaded", "dumped"}
Failed(kind) == pc = "failed" /\ result.kind = "Err" /\ result.error.kind = kind
HasTag(tag) == \E i \in 1..Len(tagLog) : tagLog[i].tag = tag
Range(seq) == {seq[i] : i \in 1..Len(seq)}
IsPrefix(a, b) == Len(a) <= Len(b) /\ SubSeq(b, 1, Len(a)) = a

RepeatsName(a, flat) ==
    \E i, j \in 1..(Len(flat) \div 2) :
        i < j /\ a[flat[2 * i - 1]].value = a[flat[2 * j - 1]].value

\* read_instance_variables has returned a table that repeats a name, to
\* read_object or to the wrapper arm holding a String or UserDefined
RepeatedTableRead ==
    /\ pc = "value"
    /\ stack # <<>>
    /\ Top(stack).kind \in {"IVar", "Object"}
    /\ Expect(stack) = "finish"
    /\ RepeatsName(arena, Top(stack).items)
    /\ Top(stack).kind = "IVar" =>
         arena[Top(stack).head].kind \in {"String", "UserDefined"}

\* C2 (duplicate instance variable rejection): once a table that names the
\* same symbol twice has been read, for an Object or for a wrapped String or
\* UserDefined, load fails with DuplicateInstanceVariable.
C2_DuplicateRejected ==
    [][RepeatedTableRead =>
         (pc' = "failed" /\ result'.kind = "Err"
          /\ result'.error.kind = "DuplicateInstanceVariable")]_vars

\* the handles a container value holds
ChildrenOf(v) ==
    CASE v.kind = "Array" -> Range(v.value)
      [] v.kind = "Hash" ->
           {v.value[i][1] : i \in 1..Len(v.value)}
           \cup {v.value[i][2] : i \in 1..Len(v.value)}
           \cup (IF v.default_value.some THEN {v.default_value.value} ELSE {})
      [] v.kind = "Object" ->
           {v.instance_variables[i][2] : i \in 1..Len(v.instance_variables)}
      [] OTHER -> {}

SelfLinkStream == <<MAJOR_VERSION, MINOR_VERSION, VALUE_KIND_ARRAY, 6,
                    VALUE_KIND_OBJECT_LINK, 0>>

\* C3 (cyclic structure): an '@' whose index is that of the container being
\* read resolves to that container's handle; when load returns, the handle
\* addresses the finished Array, Hash or Object and is among its children.
\* The stream header, '[', 1, '@', 0 does not fail and loads as an Array
\* whose only element is the root handle.
C3_CyclicStructure ==
    /\ \A i \in 1..Len(tagLog) :
         LET e == tagLog[i] IN
         (e.tag = VALUE_KIND_OBJECT_LINK /\ e.parent # 0 /\ e.index >= 0
          /\ e.index < Len(object_links) /\ object_links[e.index + 1] = e.parent)
         => /\ e.handle = e.parent
            /\ Loaded => /\ arena[e.handle].kind \in {"Array", "Hash", "Object"}
                         /\ e.handle \in ChildrenOf(arena[e.handle])
    /\ input = SelfLinkStream =>
         /\ pc # "failed"
         /\ Loaded => (arena[root] = ArrayValue(<<root>>) /\ root = 2)

C3_Witness ==
    /\ input = SelfLinkStream
    /\ Loaded
    /\ arena[root].kind = "Array"
    /\ arena[root].value = <<root>>

IsSymbolDefinition(e) == e.tag = VALUE_KIND_SYMBOL
CreatesNoSlot(e) ==
    \/ e.tag \in {VALUE_KIND_SYMBOL_LINK, VALUE_KIND_OBJECT_LINK,
                  VALUE_KIND_INSTANCE_VARIABLES}
    \/ e.tag = VALUE_KIND_USER_DEFINED /\ e.handle = 0

SymbolDedupStream == <<MAJOR_VERSION, MINOR_VERSION, VALUE_KIND_ARRAY, 7,
                       VALUE_KIND_SYMBOL, 6, 97, VALUE_KIND_SYMBOL_LINK, 0>>

\* C4 (symbol dedup): a ';' with index k returns the handle the (k+1)-th ':'
\* of the stream so far created, and creates no slot: the arena holds the
\* initial root and one slot per tag other than links and the wrapper.
\* '[', 2, ':' "a", ';' 0 loads as an Array of the same handle twice.
C4_SymbolDedup ==
    /\ \A i \in 1..Len(tagLog) :
         tagLog[i].tag = VALUE_KIND_SYMBOL_LINK =>
           LET defs == SelectSeq(SubSeq(tagLog, 1, i - 1), IsSymbolDefinition)
               k == tagLog[i].index
           IN k >= 0 /\ k < Len(defs) /\ tagLog[i].handle = defs[k + 1].handle
    /\ Len(arena) =
         1 + Cardinality({i \in 1..Len(tagLog) : ~CreatesNoSlot(tagLog[i])})
    /\ (input = SymbolDedupStream /\ Loaded) =>
         (arena[root].kind = "Array" /\ arena[root].value = <<3, 3>>)

C4_Witness ==
    /\ Loaded
    /\ \E i, j \in 1..Len(tagLog) :
         /\ tagLog[i].tag = VALUE_KIND_SYMBOL
         /\ tagLog[j].tag = VALUE_KIND_SYMBOL_LINK
         /\ tagLog[j].handle = tagLog[i].handle
    /\ arena[root].kind = "Array"
    /\ Len(arena[root].value) = 2
    /\ arena[root].value[1] = arena[root].value[2]

\* the encode rule with the one-byte negative range written -124..-1
FixnumRuleOneByteTo124(v) ==
    IF v = 0 THEN <<0>>
    ELSE IF v >= 1 /\ v <= 122 THEN <<v + 5>>
    ELSE IF v >= -124 /\ v <= -1 THEN <<AsU8(v - 5)>>
    ELSE LET c == MinimalByteCount(v) IN
         <<IF v > 0 THEN c ELSE AsU8(-c)>> \o LeBytes(v, c)

\* C5 as stated (fixnum boundary): each boundary value, encoded with the
\* one-byte negative form value - 5 for -124..-1, decodes to itself.
C5_BoundaryRoundTripTo124 ==
    fx.mode = "roundtrip" =>
        LET r == read_fixnum_value(FixnumRuleOneByteTo124(fx.value)) IN
        r.ok /\ r.value = fx.value

\* C5 (fixnum boundary), amended: each boundary value, encoded by the rule
\* whose one-byte negative form covers -123..-1 (so -124 is written as the
\* marker 0xFF and the byte 0x84), is read back by read_fixnum_value as the
\* original integer, using every byte written; the one-byte forms are used
\* for -123..122 and the shortest marker form otherwise.
C5_BoundaryRoundTrip ==
    fx.mode = "roundtrip" =>
        /\ fx.result.ok
        /\ fx.result.value = fx.value
        /\ fx.result.used = Len(fx.bytes)
        /\ (fx.value >= -123 /\ fx.value <= 122) <=> Len(fx.bytes) = 1
        /\ fx.value = -124 => fx.bytes = <<255, 132>>
        /\ fx.value = 123 => fx.bytes = <<1, 123>>
        /\ fx.value = I32_MAX => fx.bytes = <<4, 255, 255, 255, 127>>
        /\ fx.value = I32_MIN => fx.bytes = <<252, 0, 0, 0, 128>>

C5_Witness ==
    /\ fx.mode = "roundtrip"
    /\ fx.value = -124
    /\ fx.result.ok
    /\ fx.result.value = -124

\* the number whose little-endian bytes are p (at most three bytes, or four
\* with the top bit clear)
RECURSIVE LeValue(_)
LeValue(p) == IF p = <<>> THEN 0 ELSE p[1] + 256 * LeValue(Tail(p))

\* the i32 whose four little-endian bytes are p
I32OfBytes(p) == LeValue(SubSeq(p, 1, 3)) + 16777216 * AsI8(p[4])

\* C9 as stated (fixnum decode rule): b = 0 gives 0; signed b > 4 gives
\* b - 5; signed b < -4 gives b + 5, within -124..-1; b in 1..4 gives the
\* non-negative number whose b little-endian bytes are the payload; b in
\* -4..-1 gives the payload sign-extended with ones.
C9_DecodeRuleAsStated ==
    (fx.mode = "decoded" /\ Len(fx.bytes) = 1 + (IF fx.bytes[1] \in CountedMarkers
                                                 THEN PayloadCount(fx.bytes[1])
                                                 ELSE 0)) =>
        LET b == fx.bytes[1]
            sb == AsI8(b)
            p == Tail(fx.bytes)
            r == fx.result
        IN
        /\ r.ok
        /\ b = 0 => r.value = 0
        /\ sb > 4 => r.value = sb - 5
        /\ sb < -4 => (r.value = sb + 5 /\ r.value \in -124..-1)
        /\ (sb >= 1 /\ sb <= 4) => (r.value >= 0 /\ LeBytes(r.value, sb) = p)
        /\ (sb >= -4 /\ sb <= -1) =>
             (LeBytes(r.value, -sb) = p
              /\ -sb < 4 => (r.value < 0 /\ r.value >= -Pow256(-sb)))

\* C9 (fixnum decode rule), amended: b = 0 gives 0; signed b > 4 gives
\* b - 5; signed b < -4 gives b + 5, the one-byte forms 0x80..0xFB covering
\* exactly -123..0; b in 1..4 reads b little-endian bytes zero-extended into
\* the i32, which is the non-negative magnitude unless b = 4 and the last
\* byte is 0x80 or more, when the i32 is negative; b in -4..-1 reads -b
\* little-endian bytes sign-extended with ones (negative for fewer than
\* four bytes; four bytes are the i32 as it stands).  A cut payload is an Io
\* error and no marker byte is rejected with InvalidFixnumSize.
C9_DecodeRule ==
    fx.mode = "decoded" =>
        LET b == fx.bytes[1]
            sb == AsI8(b)
            p == Tail(fx.bytes)
            r == fx.result
            n == IF b \in CountedMarkers THEN PayloadCount(b) ELSE 0
        IN
        IF Len(p) < n THEN ~r.ok /\ r.error = ErrIo
        ELSE /\ r.ok
             /\ r.used = 1 + n
             /\ b = 0 => r.value = 0
             /\ sb > 4 => r.value = sb - 5
             /\ sb < -4 => (r.value = sb + 5 /\ r.value \in -123..0)
             /\ b = 128 =>
                  {read_fixnum_value(<<m>>).value : m \in 128..251} = -123..0
             /\ (sb >= 1 /\ sb <= 4) =>
                  IF sb = 4 /\ p[4] >= 128
                  THEN r.value = I32OfBytes(p) /\ r.value < 0
                  ELSE r.value = LeValue(p) /\ r.value >= 0
             /\ (sb >= -4 /\ sb <= -1) =>
                  IF n = 4 THEN r.value = I32OfBytes(p)
                  ELSE r.value = LeValue(p) - Pow256(n) /\ r.value < 0

\* a four-byte positive form with the top bit set was decoded
C9_Witness ==
    /\ fx.mode = "decoded"
    /\ fx.bytes = <<4, 255, 255, 255, 255>>
    /\ fx.result.ok
    /\ fx.result.value = -1

\* Properties of Spec, continued.

\* C6 (version rejection): once the two header bytes are read, load has
\* failed with InvalidVersion{major, minor} exactly when the first byte is
\* not 4 or the second is above 8, and then no tag was read and no value
\* created; with major 4 and minor <= 8 decoding goes on to the value.
C6_VersionRejection ==
    Len(input) >= 2 =>
        LET rejected == input[1] # 4 \/ input[2] > 8 IN
        /\ Failed("InvalidVersion") <=> rejected
        /\ rejected =>
             /\ result.error = ErrInvalidVersion(input[1], input[2])
             /\ Len(input) = 2
             /\ tagLog = <<>>
             /\ arena = <<NilValue>>
        /\ (~rejected /\ Len(input) = 2) => (pc = "value" \/ Failed("Io"))

C6_Witness ==
    /\ Failed("InvalidVersion")
    /\ input = <<4, 9>>

LinkEligibleTags ==
    {VALUE_KIND_FLOAT, VALUE_KIND_STRING, VALUE_KIND_CLASS,
     VALUE_KIND_USER_DEFINED, VALUE_KIND_ARRAY, VALUE_KIND_HASH,
     VALUE_KIND_HASH_DEFAULT, VALUE_KIND_OBJECT}
IsLinkEligible(e) == e.tag \in LinkEligibleTags
Handles(entries) == [i \in 1..Len(entries) |-> entries[i].handle]

\* the link tables are the eligible tags' handles, in stream order; the one
\* tag that may still be without its entry is a 'u' whose class name or
\* payload is being read (nothing link-eligible is read in between)
LinkTablesFollowTags ==
    LET el == SelectSeq(tagLog, IsLinkEligible)
        pending == Len(el) - Len(object_links)
    IN
    /\ pending \in {0, 1}
    /\ SubSeq(Handles(el), 1, Len(object_links)) = object_links
    /\ pending = 1 =>
         /\ el[Len(el)].tag = VALUE_KIND_USER_DEFINED
         /\ el[Len(el)].handle = 0
         /\ stack # <<>>
         /\ Top(stack).kind = "UserDefined"
    /\ symbol_links = Handles(SelectSeq(tagLog, IsSymbolDefinition))
    /\ \A i \in 1..Len(stack) :
         stack[i].kind \in {"Array", "Hash", "HashDefault", "Object"} =>
           /\ stack[i].handle \in Range(object_links)
           /\ tagLog[stack[i].at].handle = stack[i].handle

\* C7 (link-table assignment order): at every step of a decode both link
\* tables only grow at the end, the generic-object table holds the handles
\* of the values the f, ", c, u, [, {, }, o tags introduced, in stream order,
\* a container having its entry before its children are read, and the
\* symbol table holds the handles of the ':' definitions and nothing else.
C7_LinkTableOrder ==
    [][/\ IsPrefix(object_links, object_links')
       /\ IsPrefix(symbol_links, symbol_links')
       /\ LinkTablesFollowTags']_vars

C7_Witness ==
    /\ Loaded
    /\ Len(object_links) >= 2
    /\ Len(symbol_links) >= 1
    /\ HasTag(VALUE_KIND_USER_DEFINED)

ContainerKind(tag) ==
    CASE tag = VALUE_KIND_ARRAY -> "Array"
      [] tag \in {VALUE_KIND_HASH, VALUE_KIND_HASH_DEFAULT} -> "Hash"
      [] tag = VALUE_KIND_OBJECT -> "Object"
      [] OTHER -> "none"

\* C8 (placeholder completion): when load has returned, no call is left in
\* progress, every slot reserved for a '[', '{', '}' or 'o' holds the
\* finished Array, Hash or Object under the handle that was reserved, and no
\* handle in the generic-object link table addresses a Nil.
C8_PlaceholderCompletion ==
    Loaded =>
        /\ stack = <<>>
        /\ \A h \in reserved : arena[h].kind \in {"Array", "Hash", "Object"}
        /\ \A i \in 1..Len(tagLog) :
             ContainerKind(tagLog[i].tag) # "none" =>
               /\ tagLog[i].handle \in reserved
               /\ arena[tagLog[i].handle].kind = ContainerKind(tagLog[i].tag)
        /\ \A k \in 1..Len(object_links) : arena[object_links[k]].kind # "Nil"

C8_Witness ==
    /\ Loaded
    /\ Cardinality(reserved) >= 2
    /\ \E h \in reserved : arena[h].kind = "Hash"

\* the wrapper arm is about to match on the wrapped value
WrapperAtMatch ==
    /\ pc = "value"
    /\ stack # <<>>
    /\ Top(stack).kind = "IVar"
    /\ Expect(stack) = "finish"

\* C10 (instance-variables wrapper target): when the wrapped value and the
\* table have been read, the table is attached to the wrapped value, and
\* load goes on, if and only if the value is then a String or a
\* UserDefined; for every other kind, a Nil placeholder included, load
\* fails with NotAnObject and the arena is left as it was.
C10_WrapperTarget ==
    [][WrapperAtMatch =>
         LET f == Top(stack)
             v == arena[f.head]
         IN
         IF v.kind \in {"String", "UserDefined"}
         THEN /\ pc' # "failed"
              /\ arena'[f.head].kind = v.kind
              /\ arena'[f.head].instance_variables = Some(Pairs(f.items, f.n))
              /\ \A h \in 1..Len(arena) : h # f.head => arena'[h] = arena[h]
              /\ Len(arena') = Len(arena)
         ELSE /\ pc' = "failed"
              /\ result' = [kind |-> "Err", error |-> ErrNotAnObject]
              /\ arena' = arena]_vars

\* the wrapper was applied to a link to a container still being read
C10_Witness ==
    /\ Failed("NotAnObject")
    /\ stack # <<>>
    /\ Top(stack).kind = "IVar"
    /\ Top(stack).head \in reserved
    /\ arena[Top(stack).head].kind = "Nil"

\* the step reads tag byte `tag` where the innermost call expects one of
\* `expects`, and then the bytes of the tag's index
ReadsLinkTag(tag, expects) ==
    /\ pc = "value"
    /\ Expect(stack) \in expects
    /\ Len(input') > Len(input) + 1
    /\ SubSeq(input', 1, Len(input)) = input
    /\ input'[Len(input) + 1] = tag

\* the index the step's bytes after the tag decode to
LinkIndex == read_fixnum_value(SubSeq(input', Len(input) + 2, Len(input')))

\* the step failed with `error`, handing no handle to any caller and leaving
\* the arena, the tables and the pending calls as they were
FailsWith(error) ==
    /\ pc' = "failed"
    /\ result' = [kind |-> "Err", error |-> error]
    /\ UNCHANGED <<arena, root, symbol_links, object_links, stack, tagLog>>

\* the step returned the table's entry at `index`, creating no value
ReturnsEntry(links, index) ==
    /\ pc' # "failed"
    /\ result'.kind # "Err"
    /\ arena' = arena
    /\ Len(tagLog') = Len(tagLog) + 1
    /\ tagLog'[Len(tagLog')].handle = links[index + 1]

LinkLookup(links, index, missing) ==
    IF ~index.ok THEN pc' = "failed"
    ELSE IF index.value < 0 THEN FailsWith(ErrFixnumInvalidUSize)
    ELSE IF index.value >= Len(links) THEN FailsWith(missing)
    ELSE ReturnsEntry(links, index.value)

\* C11 (missing link index): a ';' (resp. '@') tag whose index is not below
\* the length the symbol table (resp. the generic-object table) has when the
\* tag is read makes load fail with MissingSymbolLink (resp.
\* MissingObjectLink) carrying that index, a negative index makes load fail
\* too, and only an index inside the table returns a handle, which is the
\* table's entry at that index: no other handle is ever handed back.
C11_MissingLink ==
    [][/\ ReadsLinkTag(VALUE_KIND_SYMBOL_LINK, {"value", "symbol"}) =>
            LinkLookup(symbol_links, LinkIndex,
                       ErrMissingSymbolLink(LinkIndex.value))
       /\ ReadsLinkTag(VALUE_KIND_OBJECT_LINK, {"value"}) =>
            LinkLookup(object_links, LinkIndex,
                       ErrMissingObjectLink(LinkIndex.value))]_vars

\* a link to the entry after the last one of a table that already has
\* entries, read inside a container that is still being decoded
C11_Witness ==
    /\ Failed("MissingObjectLink")
    /\ input[Len(input) - 1] = VALUE_KIND_OBJECT_LINK
    /\ object_links # <<>>
    /\ result.error.index = Len(object_links)
    /\ stack # <<>>

====
